---- MODULE Spec2Model ----
(***************************************************************************)
(* Model of the trading agent: the pullback entry/exit signal engine       *)
(* (analysis/signals.py), the strategy wrapper (strategies/wilder.py),     *)
(* the indicator pipeline's column contract (analysis/indicators.py), the  *)
(* regime detector and per-symbol analysis of agent.py, and the modular    *)
(* analysis chain of analysis/regime.py.                                   *)
(*                                                                         *)
(* Numbers.  Prices, EMA and ATR are integers in half-units: one unit is   *)
(* 0.00001 (the fifth decimal place), so a value v stands for v * 0.000005.*)
(* Outputs of round(x, 5) are integers in units.  The multipliers          *)
(* pullback_atr_frac, sl_atr_mult and tp_atr_mult are integers in          *)
(* quarters (0.25 -> 1, 1.5 -> 6, 2.0 -> 8).  RSI and ADX are plain        *)
(* integers.  float('nan') is the value NaN, Python's None the value None. *)
(***************************************************************************)
EXTENDS Integers, Sequences, FiniteSets, TLC

VARIABLES
    m15,      \* the fine-timeframe frame handed to the signal engine
    bias,     \* the bias argument of the signal engine
    rules,    \* cfg["rules"] of the WilderStrategy instance
    out,      \* what the last signal call returned or raised
    d1,       \* agent.py: the Daily indicator frame given to regime_signal
    h4,       \* agent.py: the 4H indicator frame
    h1,       \* agent.py: the 1H indicator frame
    reg,      \* agent.py: what the last regime_signal call returned or raised
    feed,     \* agent.py: per timeframe, what yfinance and pandas_ta deliver
    dfs,      \* agent.py analyze_symbol: the downloaded frames d1, h4, h1, m15
    m15i,     \* agent.py analyze_symbol: the M15 indicator frame
    chart,    \* agent.py analyze_symbol: the attachments list
    report,   \* agent.py analyze_symbol: what build_html rendered
    apc,      \* agent.py analyze_symbol: position in the function
    ccall,    \* analysis/regime.py analyze_symbol: the add_indicators call made
    cpc,      \* analysis/regime.py analyze_symbol: position in the function
    cexc,     \* analysis/regime.py analyze_symbol: the exception that left it
    tie,      \* repeated signal calls: which way round() takes the frame's ties
    first,    \* repeated signal calls: per route, what the first call returned
    ncalls,   \* repeated signal calls: the calls made so far, by kind
    given,    \* repeated signal calls: the arguments of the last call
    bars,     \* add_indicators: the caller's frame and what pandas_ta does on it
    icall,    \* add_indicators: which add_indicators is called, and how
    ires,     \* add_indicators: what the call returned or raised
    run,      \* main: the program run, its symbols and what fails in it
    mi,       \* main: the number of symbols the loop has gone through
    reports,  \* main: the reports built so far (html / all_html)
    outlog,   \* main: what was mailed or printed so far
    mpc,      \* main: position in the function
    env,      \* send_email: the process environment (os.environ)
    msg,      \* send_email: the message built
    smtplog,  \* send_email: the SMTP steps taken, each with its outcome
    sendres,  \* send_email: what the call returned or raised
    sendpc    \* send_email: position in the function

sigvars == <<m15, bias, rules, out>>
regvars == <<d1, h4, h1, reg>>

agvars == <<feed, dfs, m15i, chart, report, apc>>

chvars == <<ccall, cpc, cexc>>

repvars == <<tie, first, ncalls, given>>

\* The state of the machines other than the signal engine, the regime
\* detector, the per-symbol analysis and the modular chain.
indvars == <<bars, icall, ires>>

mainvars == <<run, mi, reports, outlog, mpc>>

mailvars == <<env, msg, smtplog, sendres, sendpc>>

extvars == <<repvars, indvars, mainvars, mailvars>>

vars == <<m15, bias, rules, out, d1, h4, h1, reg, feed, dfs, m15i, chart, report, apc,
          ccall, cpc, cexc, tie, first, ncalls, given, bars, icall, ires,
          run, mi, reports, outlog, mpc, env, msg, smtplog, sendres, sendpc>>

-----------------------------------------------------------------------------
(* Bounds of the model *)

MaxPrice == 4      \* close and EMA50 range over 1..MaxPrice half-units
MaxAtr == 6        \* ATR ranges over -1..MaxAtr half-units
MaxBars == 20      \* long frames have MinBars..MaxBars rows
MaxLen == 7        \* agent.py frames have 0, 4 or 6..MaxLen rows
MaxCalls == 3      \* repeated signal calls: at most MaxCalls calls in a row
MaxRows == 3       \* add_indicators: input frames have 0..MaxRows rows
MaxSymbols == 3    \* main: the symbol list has 0..MaxSymbols entries

-----------------------------------------------------------------------------
(* Values *)

NaN == -1000000
None == -2000000

MinBars == 20
RsiMid == 50
DefPullbackFrac4 == 1
DefSlMult4 == 6
DefTpMult4 == 8

IsNaN(x) == x = NaN

\* IEEE comparisons: every comparison with a NaN operand is False.
FGt(a, b) == ~IsNaN(a) /\ ~IsNaN(b) /\ a > b
FLt(a, b) == ~IsNaN(a) /\ ~IsNaN(b) /\ a < b
FGe(a, b) == ~IsNaN(a) /\ ~IsNaN(b) /\ a >= b
FLe(a, b) == ~IsNaN(a) /\ ~IsNaN(b) /\ a <= b

Abs(x) == IF x < 0 THEN -x ELSE x

\* abs(a - b) of two floats; NaN propagates.
FAbsDiff(a, b) == IF IsNaN(a) \/ IsNaN(b) THEN NaN ELSE Abs(a - b)

\* frac4/4 * atr, kept as the numerator over 4; NaN propagates.
FMul4(k4, x) == IF IsNaN(x) THEN NaN ELSE k4 * x

\* round(num/den, 5) for a value num/den in units: the nearest integer; a
\* value exactly half way between two units goes to either neighbour (the
\* double nearest to it lies on one side or the other), chosen by up.
RoundDiv(num, den, up) ==
    LET f == num \div den
        r == num % den
    IN  IF 2 * r < den THEN f
        ELSE IF 2 * r > den THEN f + 1
        ELSE IF up THEN f + 1 ELSE f

-----------------------------------------------------------------------------
(* analysis/signals.py: entry_exit_on_m15 *)

SignalCols == {"Open", "High", "Low", "Close", "Volume", "EMA50", "RSI", "ATR", "PSAR"}
RawCols == {"Open", "High", "Low", "Close", "Volume"}

\* The columns in the order lines 12-17 read them.
ReadOrder == <<"Close", "EMA50", "RSI", "ATR", "PSAR", "RSI">>

NOTE_NONE == "Kein Setup"
NOTE_SHORT == "Zu wenige Bars"
NOTE_BUY == "UP-Bias Entry (RSI>50, Pullback, >EMA50)"
NOTE_BUY_PSAR == "UP-Bias Entry (RSI>50, Pullback, >EMA50) | Achtung: PSAR ueber Preis (moeglicher Flip)."
NOTE_SELL == "DOWN-Bias Entry (RSI<50, Pullback, <EMA50)"
NOTE_SELL_PSAR == "DOWN-Bias Entry (RSI<50, Pullback, <EMA50) | Achtung: PSAR unter Preis (moeglicher Flip)."

too_few_bars_off_by_one(n) == n < MinBars - 1

too_few_bars(n) == n < MinBars

\* Index in ReadOrder of the first column the frame lacks, 0 if none.
FirstMissing(cols) ==
    LET bad == {i \in 1..Len(ReadOrder) : ReadOrder[i] \notin cols}
    IN  IF bad = {} THEN 0 ELSE CHOOSE i \in bad : \A j \in bad : i <= j

pullback_ok_not_gt(close, ema50, atr, frac4) ==
    ~FGt(FMul4(4, FAbsDiff(close, ema50)), FMul4(frac4, atr))

pullback_ok(close, ema50, atr, frac4) ==
    FLe(FMul4(4, FAbsDiff(close, ema50)), FMul4(frac4, atr))

crossed_up_strict(prev_rsi, rsi) == FLt(prev_rsi, RsiMid) /\ FGt(rsi, RsiMid)

crossed_up(prev_rsi, rsi) == FLe(prev_rsi, RsiMid) /\ FGt(rsi, RsiMid)

crossed_dn_strict(prev_rsi, rsi) == FGt(prev_rsi, RsiMid) /\ FLt(rsi, RsiMid)

crossed_dn(prev_rsi, rsi) == FGe(prev_rsi, RsiMid) /\ FLt(rsi, RsiMid)

buy_setup(f, b, frac4) ==
    /\ b = "UP"
    /\ FGt(f.Close, f.EMA50)
    /\ crossed_up(f.prevRSI, f.RSI)
    /\ pullback_ok(f.Close, f.EMA50, f.ATR, frac4)

sell_setup(f, b, frac4) ==
    /\ b = "DOWN"
    /\ FLt(f.Close, f.EMA50)
    /\ crossed_dn(f.prevRSI, f.RSI)
    /\ pullback_ok(f.Close, f.EMA50, f.ATR, frac4)

\* round(close, 5): close is in half-units.
round_entry(close, up) == RoundDiv(close, 2, up)

\* round(entry -/+ mult * atr, 5): entry in units, atr in half-units, mult in
\* quarters, so the value is (8*entry -/+ mult4*atr) / 8 units.
level_below_unrounded_down(entry, mult4, atr, up) == (8 * entry - mult4 * atr) \div 8

level_below(entry, mult4, atr, up) == RoundDiv(8 * entry - mult4 * atr, 8, up)
level_above(entry, mult4, atr, up) == RoundDiv(8 * entry + mult4 * atr, 8, up)

\* out = {"action": "WAIT", "note": ..., "entry": None, "sl": None, "tp": None}
WaitOut(note, rd, p) ==
    [status |-> "returned", exc |-> "", action |-> "WAIT", note |-> note,
     entry |-> None, sl |-> None, tp |-> None, reads |-> rd, params |-> p, via |-> ""]

RaiseOut(exc, rd, p) ==
    [status |-> "raised", exc |-> exc, action |-> "", note |-> "",
     entry |-> None, sl |-> None, tp |-> None, reads |-> rd, params |-> p, via |-> ""]

\* ties = <<u1, u2, u3>>: the direction of the three round() calls on a tie.
entry_exit_on_m15(f, b, p, ties) ==
    IF too_few_bars(f.n) THEN WaitOut(NOTE_SHORT, <<>>, p)
    ELSE IF FirstMissing(f.cols) # 0
    THEN RaiseOut("KeyError", SubSeq(ReadOrder, 1, FirstMissing(f.cols) - 1), p)
    ELSE IF buy_setup(f, b, p.frac)
    THEN LET entry == round_entry(f.Close, ties[1])
         IN  [status |-> "returned", exc |-> "", action |-> "BUY",
              note |-> IF FGt(f.PSAR, f.Close) THEN NOTE_BUY_PSAR ELSE NOTE_BUY,
              entry |-> entry,
              sl |-> level_below(entry, p.sl, f.ATR, ties[2]),
              tp |-> level_above(entry, p.tp, f.ATR, ties[3]),
              reads |-> ReadOrder, params |-> p, via |-> ""]
    ELSE IF sell_setup(f, b, p.frac)
    THEN LET entry == round_entry(f.Close, ties[1])
         IN  [status |-> "returned", exc |-> "", action |-> "SELL",
              note |-> IF FLt(f.PSAR, f.Close) THEN NOTE_SELL_PSAR ELSE NOTE_SELL,
              entry |-> entry,
              sl |-> level_above(entry, p.sl, f.ATR, ties[2]),
              tp |-> level_below(entry, p.tp, f.ATR, ties[3]),
              reads |-> ReadOrder, params |-> p, via |-> ""]
    ELSE WaitOut(NOTE_NONE, ReadOrder, p)

DefaultParams == [frac |-> DefPullbackFrac4, sl |-> DefSlMult4, tp |-> DefTpMult4]

\* cfg["rules"] values a strategy instance may carry: the defaults, a wider
\* pullback with nearer levels (0.5, 1.0, 1.5), and a pullback of one ATR
\* with levels half an ATR away (1.0, 0.5, 0.5).
RuleSets ==
    {DefaultParams, [frac |-> 2, sl |-> 4, tp |-> 6], [frac |-> 4, sl |-> 2, tp |-> 2]}

NoCall ==
    [status |-> "none", exc |-> "", action |-> "", note |-> "",
     entry |-> None, sl |-> None, tp |-> None, reads |-> <<>>, params |-> DefaultParams, via |-> ""]

Ties == {<<a, b, c>> : a \in BOOLEAN, b \in BOOLEAN, c \in BOOLEAN}

PriceVals == (1..MaxPrice) \cup {NaN}
AtrVals == (-1..MaxAtr) \cup {NaN}
RsiVals == {NaN, RsiMid - 1, RsiMid, RsiMid + 1}
PsarVals == {NaN, 0, MaxPrice + 1}
Biases == {"UP", "DOWN", "NEUTRAL"}

\* Frames with every column the engine reads, MinBars rows or more.
LongFrames ==
    [n : MinBars..MaxBars, cols : {SignalCols},
     Close : PriceVals, EMA50 : PriceVals, RSI : RsiVals, prevRSI : RsiVals,
     ATR : AtrVals, PSAR : PsarVals]

\* Frames with too few rows or without the indicator columns.
OddFrames ==
    [n : {0, 1, MinBars - 1, MinBars}, cols : {SignalCols, RawCols, {}},
     Close : {2}, EMA50 : {1, NaN}, RSI : {RsiMid + 1}, prevRSI : {RsiMid},
     ATR : {MaxAtr}, PSAR : {NaN}]

-----------------------------------------------------------------------------
(* agent.py: indicator frames and regime_signal *)

SlopeN == 5
AdxMin == 18

\* A frame of agent.py: None, or n rows with the named columns; ema and adx
\* hold the EMA_50_<tf> and ADX_14_<tf> columns (<<>> when absent).
NoneFrame == [isNone |-> TRUE, n |-> 0, cols |-> {}, ema |-> <<>>, adx |-> <<>>]

OhlcCols == {"Open", "High", "Low", "Close", "Volume"}

EmaCol(tf) == "EMA_50_" \o tf
AdxCol(tf) == "ADX_14_" \o tf
RsiCol(tf) == "RSI_14_" \o tf

\* df is None or df.empty
NoData(df) == df.isNone \/ df.n = 0 \/ df.cols = {}

\* series.dropna()
DropNa(series) == SelectSeq(series, LAMBDA v : ~IsNaN(v))

slope_last(series) ==
    LET s == DropNa(series)
    IN  IF Len(s) < SlopeN + 1 THEN 0 ELSE s[Len(s)] - s[Len(s) - SlopeN]

\* last_adx raises IndexError: the column exists, the frame has rows, and
\* dropna() leaves nothing for .iloc[-1].
last_adx_raises(df, tf) ==
    AdxCol(tf) \in df.cols /\ ~NoData(df) /\ DropNa(df.adx) = <<>>

last_adx(df, tf) ==
    IF AdxCol(tf) \notin df.cols THEN 0
    ELSE IF NoData(df) THEN 0
    ELSE LET s == DropNa(df.adx) IN s[Len(s)]

strong_either(adx_d1, adx_h4) == adx_d1 > AdxMin \/ adx_h4 > AdxMin

strong(adx_d1, adx_h4) == adx_d1 > AdxMin /\ adx_h4 > AdxMin

R_INCOMPLETE == "Unvollstaendige Daten (D1/H4) - neutralisiert"
R_UP == "EMA50 steigend (D1/H4) & ADX>18"
R_DOWN == "EMA50 fallend (D1/H4) & ADX>18"
R_NONE == "Kein klarer Trend (EMA/ADX)"

RegRet(b, why) == [status |-> "returned", exc |-> "", bias |-> b, reason |-> why]
RegRaise(exc) == [status |-> "raised", exc |-> exc, bias |-> "", reason |-> ""]
NoRegime == [status |-> "none", exc |-> "", bias |-> "", reason |-> ""]

regime_signal(fd1, fh4, fh1) ==
    IF NoData(fd1) \/ NoData(fh4) THEN RegRet("NEUTRAL", R_INCOMPLETE)
    ELSE IF EmaCol("D1") \notin fd1.cols THEN RegRaise("IndexError")
    ELSE IF EmaCol("H4") \notin fh4.cols THEN RegRaise("IndexError")
    ELSE IF last_adx_raises(fd1, "D1") THEN RegRaise("IndexError")
    ELSE IF last_adx_raises(fh4, "H4") THEN RegRaise("IndexError")
    ELSE LET s_d1 == slope_last(fd1.ema)
             s_h4 == slope_last(fh4.ema)
             st == strong(last_adx(fd1, "D1"), last_adx(fh4, "H4"))
         IN  IF s_d1 > 0 /\ s_h4 > 0 /\ st THEN RegRet("UP", R_UP)
             ELSE IF s_d1 < 0 /\ s_h4 < 0 /\ st THEN RegRet("DOWN", R_DOWN)
             ELSE RegRet("NEUTRAL", R_NONE)

\* A column of n rows: warm NaN rows, then start, start + step, ...
Series(n, warm, start, step) ==
    [i \in 1..n |-> IF i <= warm THEN NaN ELSE start + (i - warm - 1) * step]

FrameLens == {4} \cup (6..MaxLen)

EmaSeries(n) ==
    {Series(n, n, 0, 0)} \cup
    {Series(n, w, 10, st) : w \in {0, 1, 2}, st \in {-1, 0, 1}}

AdxSeries(n) ==
    {Series(n, n, 0, 0)} \cup {Series(n, 1, v, 0) : v \in {AdxMin, AdxMin + 1}}

\* The frames regime_signal is tried on for timeframe tf.
Frames(tf) ==
    {NoneFrame,
     [isNone |-> FALSE, n |-> 0, cols |-> OhlcCols \cup {EmaCol(tf), AdxCol(tf)},
      ema |-> <<>>, adx |-> <<>>]}
    \cup UNION {
        {[isNone |-> FALSE, n |-> n, cols |-> OhlcCols \cup {EmaCol(tf), AdxCol(tf)},
          ema |-> e, adx |-> a] : e \in EmaSeries(n), a \in AdxSeries(n)}
        \cup {[isNone |-> FALSE, n |-> n, cols |-> OhlcCols \cup {AdxCol(tf)},
               ema |-> <<>>, adx |-> a] : a \in AdxSeries(n)}
        \cup {[isNone |-> FALSE, n |-> n, cols |-> OhlcCols \cup {EmaCol(tf)},
               ema |-> e, adx |-> <<>>] : e \in EmaSeries(n)}
        : n \in FrameLens}

\* The 1H frames: None, empty, 4 bars, or MaxLen bars rising or falling.
H1Frames ==
    {NoneFrame,
     [isNone |-> FALSE, n |-> 0, cols |-> OhlcCols \cup {EmaCol("H1"), AdxCol("H1")},
      ema |-> <<>>, adx |-> <<>>]}
    \cup {[isNone |-> FALSE, n |-> 4, cols |-> OhlcCols \cup {EmaCol("H1"), AdxCol("H1")},
           ema |-> Series(4, 0, 10, 1), adx |-> Series(4, 1, AdxMin + 1, 0)]}
    \cup {[isNone |-> FALSE, n |-> 6, cols |-> OhlcCols \cup {EmaCol("H1"), AdxCol("H1")},
           ema |-> Series(6, 0, 10, st), adx |-> Series(6, 1, AdxMin + 1, 0)]
          : st \in {-1, 1}}


-----------------------------------------------------------------------------
(* agent.py: download_series, add_indicators, build_html, analyze_symbol *)

TFs == {"D1", "H4", "H1", "M15"}

AllNaN(n) == [i \in 1..n |-> NaN]

\* What pandas_ta returns for one indicator of one frame: None (too few
\* rows), an exception, or a result (for ADX a frame that has an ADX_14
\* column or not).
TaNone == [kind |-> "none", hasCol |-> FALSE, series |-> <<>>]
TaRaise == [kind |-> "raise", hasCol |-> FALSE, series |-> <<>>]
TaOk(series) == [kind |-> "ok", hasCol |-> TRUE, series |-> series]
TaNoCol(n) == [kind |-> "ok", hasCol |-> FALSE, series |-> AllNaN(n)]

\* What yf.download delivers: an exception, an empty frame or n rows.
FeedError == [kind |-> "error", n |-> 0, close |-> NaN,
              ta_adx |-> TaNone, ta_ema |-> TaNone, ta_rsi |-> TaNone]
FeedEmpty == [kind |-> "empty", n |-> 0, close |-> NaN,
              ta_adx |-> TaNone, ta_ema |-> TaNone, ta_rsi |-> TaNone]
FeedData(n, c, adx, ema, rsi) ==
    [kind |-> "data", n |-> n, close |-> c, ta_adx |-> adx, ta_ema |-> ema, ta_rsi |-> rsi]

NoneDf == [isNone |-> TRUE, n |-> 0, cols |-> {}, close |-> NaN,
           ta_adx |-> TaNone, ta_ema |-> TaNone, ta_rsi |-> TaNone]

\* download_series: the frame if yfinance delivered rows, else None.
download_series(f) ==
    IF f.kind = "data" /\ f.n > 0
    THEN [isNone |-> FALSE, n |-> f.n, cols |-> OhlcCols, close |-> f.close,
          ta_adx |-> f.ta_adx, ta_ema |-> f.ta_ema, ta_rsi |-> f.ta_rsi]
    ELSE NoneDf

health_counts(d) == [tf \in TFs |-> IF NoData(d[tf]) THEN 0 ELSE d[tf].n]

IndicatorCols(tf) == {AdxCol(tf), EmaCol(tf), RsiCol(tf)}

\* The ADX column add_indicators stores: the ADX_14 column of ta.adx's
\* frame, NaN if the frame has none, NaN if ta.adx raised or returned None.
adx_column(df) ==
    IF df.ta_adx.kind = "ok" /\ df.ta_adx.hasCol THEN df.ta_adx.series ELSE AllNaN(df.n)

\* The EMA and RSI columns: the series, NaN on an exception; a None result
\* is stored as a column of None, which dropna() drops like NaN.
ema_column(df) == IF df.ta_ema.kind = "ok" THEN df.ta_ema.series ELSE AllNaN(df.n)
rsi_column(df) == IF df.ta_rsi.kind = "ok" THEN df.ta_rsi.series ELSE AllNaN(df.n)

add_indicators(df, tf) ==
    IF NoData(df)
    THEN [isNone |-> FALSE, n |-> 0, cols |-> OhlcCols \cup IndicatorCols(tf),
          ema |-> <<>>, adx |-> <<>>, rsi |-> <<>>]
    ELSE [isNone |-> FALSE, n |-> df.n, cols |-> df.cols \cup IndicatorCols(tf),
          ema |-> ema_column(df), adx |-> adx_column(df), rsi |-> rsi_column(df)]

HTML_NOTE == "Neutralisiert / Daten pruefen"

trade_action(regime) ==
    IF regime = "NEUTRAL" THEN "WAIT" ELSE IF regime = "UP" THEN "BUY" ELSE "SELL"

\* build_html: the fields of the rendered report.
build_html(regime, reason, health, last_price) ==
    [regime |-> regime, reason |-> reason, health |-> health, price |-> last_price,
     action |-> trade_action(regime), entry |-> None, sl |-> None, tp |-> None,
     note |-> HTML_NOTE]

NoReport ==
    [regime |-> "", reason |-> "", health |-> [tf \in TFs |-> 0], price |-> None,
     action |-> "", entry |-> None, sl |-> None, tp |-> None, note |-> ""]

\* last_price: the last M15 close, None without M15 data.
last_price(df) == IF NoData(df) THEN None ELSE df.close

ShortFeeds ==
    {FeedData(4, 3, TaNone, TaNone, TaNone), FeedData(4, 3, TaRaise, TaRaise, TaRaise)}

FullFeeds ==
    {FeedData(MaxLen, 3, adx, TaOk(Series(MaxLen, 1, 10, st)), TaOk(Series(MaxLen, 1, 50, 0)))
        : adx \in {TaOk(Series(MaxLen, 1, AdxMin, 0)), TaOk(Series(MaxLen, 1, AdxMin + 1, 0)),
                   TaNoCol(MaxLen)},
          st \in {-1, 0, 1}}

TrendFeeds == {FeedError, FeedEmpty} \cup ShortFeeds \cup FullFeeds

FineFeeds ==
    {FeedError, FeedEmpty, FeedData(4, 3, TaNone, TaNone, TaNone),
     FeedData(MaxLen, 3, TaOk(Series(MaxLen, 1, AdxMin + 1, 0)),
              TaOk(Series(MaxLen, 1, 10, 1)), TaOk(Series(MaxLen, 1, 50, 0)))}

-----------------------------------------------------------------------------
(* analysis/indicators.py: add_indicators, and its call in the chain of
   analysis/regime.py analyze_symbol *)

\* The keyword parameters of add_indicators(df, adx_len, rsi_len, ema_len, psar).
SigParams == {"adx_len", "rsi_len", "ema_len", "psar"}

\* A call of add_indicators: the keyword names passed, and the values the
\* parameters ema_len and psar take when the call binds.
SiteCall ==
    [names |-> {"ema_fast", "ema_slow", "rsi_len", "adx_len", "atr_len",
                "psar_af", "psar_max_af"},
     ema_len |-> 50, psar |-> FALSE]

SignatureCalls ==
    {[names |-> {}, ema_len |-> 50, psar |-> FALSE],
     [names |-> {"psar"}, ema_len |-> 50, psar |-> TRUE],
     [names |-> {"ema_len", "psar"}, ema_len |-> 20, psar |-> TRUE]}

DerivedCols(ema_len, psar) ==
    {"ADX", "DMP", "DMM", "RSI", "EMA_" \o ToString(ema_len)}
        \cup (IF psar THEN {"PSAR"} ELSE {})

\* The frame add_indicators returns, or the TypeError of a call whose keyword
\* names the signature does not have.  A frame is the record of the signal
\* engine: its row count, its columns and the last values of the columns.
indicators_add_indicators(df, call) ==
    IF ~(call.names \subseteq SigParams)
    THEN [status |-> "raised", exc |-> "TypeError", frame |-> df]
    ELSE IF df.n = 0 \/ df.cols = {}
    THEN [status |-> "returned", exc |-> "", frame |-> df]
    ELSE IF ~({"Close", "High", "Low"} \subseteq df.cols)
    THEN [status |-> "returned", exc |-> "", frame |-> df]
    ELSE [status |-> "returned", exc |-> "",
          frame |-> [df EXCEPT !.cols = @ \cup DerivedCols(call.ema_len, call.psar)]]

\* .dropna(): the rows without a NaN; any number of the n rows may remain.
DropNaRows(n) == {k \in {0, MinBars - 1, MinBars, n} : k <= n}

-----------------------------------------------------------------------------
(* Repeated calls of entry_exit_on_m15 and WilderStrategy.signal *)

Routes == {"direct", "wilder"}

\* The kinds of call counted: on the caller's frame and bias by either
\* route, or on other arguments.
CallKinds == Routes \cup {"other"}

NoCalls == [k \in CallKinds |-> 0]

TotalCalls(c) == c["direct"] + c["wilder"] + c["other"]

\* The arguments of a call: the frame as it was passed, the bias, and
\* whether they are the caller's frame and bias or other ones.
NoArgs ==
    [main |-> FALSE, bias |-> "",
     frame |-> [n |-> 0, cols |-> {}, Close |-> NaN, EMA50 |-> NaN, RSI |-> NaN,
                prevRSI |-> NaN, ATR |-> NaN, PSAR |-> NaN]]

\* The caller's frames: 19 or 20 bars, close one half-unit off the EMA50
\* on either side, so that close and the levels fall on rounding ties.
RepeatFrames ==
    [n : {MinBars - 1, MinBars}, cols : {SignalCols},
     Close : {1, 3}, EMA50 : {2}, RSI : {RsiMid - 1, RsiMid + 1}, prevRSI : {RsiMid},
     ATR : {4, 6}, PSAR : {0}]

\* Frames other than f a caller may pass in between: f cut below or grown to
\* MinBars rows, and f with the close on the other side of the EMA50.
OtherFrames(f) ==
    {[f EXCEPT !.n = IF @ < MinBars THEN MinBars ELSE MinBars - 1],
     [f EXCEPT !.Close = 2 * f.EMA50 - f.Close]}

\* (frame, bias) pairs that differ from (f, b) in the bias or in the frame.
OtherArgs(f, b) ==
    {<<f, c>> : c \in Biases \ {b}} \cup {<<g, b>> : g \in OtherFrames(f)}

\* The ties of another frame go all down or all up.
OtherTies == {<<FALSE, FALSE, FALSE>>, <<TRUE, TRUE, TRUE>>}

\* self.r of the instance and the frame after a call: lines 5-41 of
\* signals.py and lines 27-31 of wilder.py only read them.
route_params(r, rl) == IF r = "direct" THEN DefaultParams ELSE rl

\* The result of a call by route r; line 7 builds a new out dict per call.
signal_call(f, b, r, rl, t) ==
    [entry_exit_on_m15(f, b, route_params(r, rl), t) EXCEPT !.via = r]

\* A variant in which the out dict of line 7 is shared between calls: a WAIT
\* result keeps the note the previous call left in it.
signal_call_shared_out(f, b, r, rl, t, last) ==
    LET res == signal_call(f, b, r, rl, t)
    IN  IF res.action = "WAIT" /\ last.status = "returned" /\ last.action = "WAIT"
        THEN [res EXCEPT !.note = last.note]
        ELSE res

-----------------------------------------------------------------------------
(* add_indicators of agent.py and of analysis/indicators.py on a frame, with
   the outcome of each pandas_ta computation given *)

\* What pandas_ta does for one indicator on a frame of n rows: it returns
\* None, raises, or returns a result; on fewer than 2 rows a result has no
\* number in it (every indicator needs a previous bar).
TaOutcomes(n) ==
    {TaNone, TaRaise, TaOk(AllNaN(n))}
        \cup (IF n >= 2 THEN {TaOk(Series(n, 1, 10, 1))} ELSE {})

\* ta.adx may also return a frame without an ADX_14 column.
AdxOutcomes(n) == TaOutcomes(n) \cup {TaNoCol(n)}

NoneBars ==
    [isNone |-> TRUE, n |-> 0, cols |-> {}, close |-> NaN,
     ta_adx |-> TaNone, ta_ema |-> TaNone, ta_rsi |-> TaNone, ta_psar |-> TaNone]

\* Frames with rows: with the raw columns every outcome of each indicator;
\* without High and Low the computations that read them raise KeyError.
RowBars(n) ==
    [isNone : {FALSE}, n : {n}, cols : {OhlcCols}, close : {3},
     ta_adx : AdxOutcomes(n), ta_ema : TaOutcomes(n), ta_rsi : TaOutcomes(n),
     ta_psar : TaOutcomes(n)]
    \cup
    [isNone : {FALSE}, n : {n}, cols : {{"Open", "Close", "Volume"}}, close : {3},
     ta_adx : {TaRaise}, ta_ema : TaOutcomes(n), ta_rsi : TaOutcomes(n),
     ta_psar : {TaRaise}]

\* The frames add_indicators is tried on: None, empty, 1..MaxRows rows.
BarFrames ==
    {NoneBars, [NoneBars EXCEPT !.isNone = FALSE, !.cols = OhlcCols]}
        \cup UNION {RowBars(n) : n \in 1..MaxRows}

\* The calls tried: agent.add_indicators(df, "D1"), and add_indicators of
\* analysis/indicators.py called as its signature allows.
AgentCall ==
    [impl |-> "agent", tf |-> "D1", names |-> {}, ema_len |-> 50, psar |-> FALSE]

IndicatorCalls ==
    {AgentCall}
        \cup {[impl |-> "indicators", tf |-> "", names |-> c.names,
               ema_len |-> c.ema_len, psar |-> c.psar] : c \in SignatureCalls}

\* A column filled by a try/except block: a zero in place of the NaN.
to_numeric_column_zero(t, n) ==
    IF t.kind = "ok" THEN t.series ELSE [i \in 1..n |-> 0]

\* indicators.py lines 77-114: the column a try/except block stores: the
\* result coerced to numbers, NaN if pandas_ta returned None or raised.
to_numeric_column(t, n) ==
    IF t.kind = "ok" THEN t.series ELSE AllNaN(n)

\* indicators.py: the contents of the columns add_indicators adds; ADX, DMP
\* and DMM are columns picked from the frame ta.adx returned.
indicator_values(df, cols) ==
    [c \in cols |->
        IF c \in {"ADX", "DMP", "DMM"} THEN to_numeric_column(df.ta_adx, df.n)
        ELSE IF c = "RSI" THEN to_numeric_column(df.ta_rsi, df.n)
        ELSE IF c = "PSAR" THEN to_numeric_column(df.ta_psar, df.n)
        ELSE to_numeric_column(df.ta_ema, df.n)]

NoIndResult ==
    [status |-> "none", exc |-> "", isNone |-> TRUE, n |-> 0, cols |-> {},
     vals |-> <<>>, arg |-> NoneBars]

\* agent.py lines 95-129 as a result record.
agent_indicators_result(df, tf) ==
    LET r == add_indicators(df, tf)
    IN  [status |-> "returned", exc |-> "", isNone |-> FALSE, n |-> r.n, cols |-> r.cols,
         vals |-> [c \in IndicatorCols(tf) |->
                      IF c = AdxCol(tf) THEN r.adx
                      ELSE IF c = EmaCol(tf) THEN r.ema ELSE r.rsi],
         arg |-> df]

\* indicators.py lines 51-116 as a result record.
wilder_indicators_result(df, call) ==
    LET r == indicators_add_indicators(df, call)
    IN  [status |-> r.status, exc |-> r.exc, isNone |-> r.frame.isNone,
         n |-> r.frame.n, cols |-> r.frame.cols,
         vals |-> indicator_values(df, r.frame.cols \ df.cols),
         arg |-> df]

-----------------------------------------------------------------------------
(* main of agent.py and of analysis/regime.py: the loop over the symbols *)

Programs == {"agent", "chain"}

SymbolNames == {"EURUSD=X", "BTC-USD"}

SymbolLists == UNION {[1..k -> SymbolNames] : k \in 0..MaxSymbols}

\* is_weekend: a symbol ending in =X, on a Saturday or Sunday.
is_weekend(symbol, weekend) == symbol = "EURUSD=X" /\ weekend

\* The symbol analysed for list entry s: agent.py switches to BTC-USD when
\* FX is closed, analysis/regime.py analyses s itself.
analysed_symbol(prog, s, weekend) ==
    IF prog = "agent" /\ is_weekend(s, weekend) THEN "BTC-USD" ELSE s

\* The html of one symbol: analyze_symbol's report, or the error block the
\* except clause builds.
symbol_report(s, sym, raised) ==
    [for |-> s, symbol |-> sym, kind |-> IF raised THEN "error" ELSE "normal"]

\* agent.py lines 333-346: where the report goes; send is what send_email
\* does (returns True, returns False, raises).
report_output(email, send) ==
    IF ~email THEN "console"
    ELSE IF send = "ok" THEN "mail"
    ELSE IF send = "nok" THEN "none" ELSE "console"

SendOutcomes == {"ok", "nok", "raise"}

MainRuns ==
    [prog : Programs, symbols : SymbolLists, raises : SUBSET (1..MaxSymbols),
     email : BOOLEAN, weekend : BOOLEAN]

NoRun ==
    [prog |-> "agent", symbols |-> <<>>, raises |-> {}, email |-> FALSE,
     weekend |-> FALSE]

-----------------------------------------------------------------------------
(* utils/emailer.py: _env and send_email *)

\* The variable names agent.py logs and check_env.py reports.
ConfigNames == {"EMAIL_TO", "SMTP_USER", "SMTP_PASS"}

\* The names lines 31-33 pass to os.getenv.  They are string literals in
\* the source (an address, an address and a password), none of them the
\* name EMAIL_TO, SMTP_USER or SMTP_PASS; each stands here under its line.
LookupTo == "name at emailer.py:31"
LookupUser == "name at emailer.py:32"
LookupPass == "name at emailer.py:33"

LookupNames == {LookupTo, LookupUser, LookupPass}

\* The value of a variable that is set and not empty: one per name.
ValueOf(n) == "value of " \o n

\* SMTP_PORT is unset, a number, empty or another text.
PortValues == {"unset", "587", "", "abc"}

\* Each of the six names is unset or empty (""), or has its value.
Environments ==
    {[n \in ConfigNames \cup LookupNames \cup {"SMTP_PORT"} |->
         IF n = "SMTP_PORT" THEN p ELSE IF n \in on THEN ValueOf(n) ELSE ""]
        : on \in SUBSET (ConfigNames \cup LookupNames), p \in PortValues}

NoEnvironment ==
    [n \in ConfigNames \cup LookupNames \cup {"SMTP_PORT"} |->
        IF n = "SMTP_PORT" THEN "unset" ELSE ""]

\* line 35: int(os.getenv("SMTP_PORT", "587")) is 587 by default and raises
\* ValueError on a value that is not a number (the empty string included).
port_parses(e) == e["SMTP_PORT"] \in {"unset", "587"}

\* lines 29-36: the dict _env() returns.
env_cfg(e) ==
    [EMAIL_TO |-> e[LookupTo], SMTP_USER |-> e[LookupUser], SMTP_PASS |-> e[LookupPass]]

\* line 75: the keys of cfg without a value.
missing(cfg) == {k \in ConfigNames : cfg[k] = ""}

NoMessage == [from |-> "", to |-> ""]

\* lines 91-97, in program order.
SmtpOrder == <<"connect", "ehlo", "starttls", "ehlo", "login", "send_message">>

\* How a step ends: it succeeds, or raises SMTPAuthenticationError, another
\* SMTPException, or another exception.
StepOutcomes == {"ok", "auth", "smtp", "other"}

\* lines 101-112 without the last except clause: another exception leaves
\* send_email.
handler_result_no_catch_all(o) == IF o = "other" THEN "raised" ELSE "False"

\* lines 101-112: each of the three except clauses returns False.
handler_result(o) == "False"

-----------------------------------------------------------------------------
(* The idle value of each part of the state *)

MailIdle ==
    /\ env = NoEnvironment /\ msg = NoMessage /\ smtplog = <<>>
    /\ sendres = "none" /\ sendpc = "idle"

MainIdle ==
    /\ run = NoRun /\ mi = 0 /\ reports = <<>> /\ outlog = <<>> /\ mpc = "idle"

IndicatorsIdle == bars = NoneBars /\ icall = AgentCall /\ ires = NoIndResult

RepeatIdle ==
    /\ tie = <<FALSE, FALSE, FALSE>>
    /\ first = [r \in Routes |-> NoCall]
    /\ ncalls = NoCalls
    /\ given = NoArgs

ExtIdle == RepeatIdle /\ IndicatorsIdle /\ MainIdle /\ MailIdle

ChainIdle == ccall = SiteCall /\ cpc = "idle" /\ cexc = ""

SignalIdle ==
    /\ m15 = [n |-> 0, cols |-> {}, Close |-> NaN, EMA50 |-> NaN, RSI |-> NaN,
              prevRSI |-> NaN, ATR |-> NaN, PSAR |-> NaN]
    /\ bias = "NEUTRAL"
    /\ rules = DefaultParams
    /\ out = NoCall

RegimeIdle == d1 = NoneFrame /\ h4 = NoneFrame /\ h1 = NoneFrame /\ reg = NoRegime

AgentIdle ==
    /\ feed = [tf \in TFs |-> FeedError]
    /\ dfs = [tf \in TFs |-> NoneDf]
    /\ m15i = NoneFrame
    /\ chart = <<>>
    /\ report = NoReport
    /\ apc = "idle"

-----------------------------------------------------------------------------
(* One call of entry_exit_on_m15 or of WilderStrategy.signal on arguments
   drawn in Init; calls in a row are the subject of SpecRepeat *)

SignalInit ==
    /\ m15 \in LongFrames \cup OddFrames
    /\ bias \in Biases
    /\ rules \in RuleSets
    /\ out = NoCall
    /\ RegimeIdle
    /\ AgentIdle
    /\ ChainIdle
    /\ ExtIdle

\* entry_exit_on_m15(m15, bias) with the default keyword arguments.
CallEntryExit ==
    /\ out = NoCall
    /\ \E t \in Ties : out' = [entry_exit_on_m15(m15, bias, DefaultParams, t) EXCEPT !.via = "direct"]
    /\ UNCHANGED <<m15, bias, rules>>
    /\ UNCHANGED regvars
    /\ UNCHANGED agvars
    /\ UNCHANGED chvars
    /\ UNCHANGED extvars

\* WilderStrategy.signal(m15, bias): the same function with cfg["rules"].
WilderSignal ==
    /\ out = NoCall
    /\ \E t \in Ties : out' = [entry_exit_on_m15(m15, bias, rules, t) EXCEPT !.via = "wilder"]
    /\ UNCHANGED <<m15, bias, rules>>
    /\ UNCHANGED regvars
    /\ UNCHANGED agvars
    /\ UNCHANGED chvars
    /\ UNCHANGED extvars

SignalNext == CallEntryExit \/ WilderSignal

SpecSignal == SignalInit /\ [][SignalNext]_vars

-----------------------------------------------------------------------------
(* agent.regime_signal on frames drawn in Init *)

RegimeInit ==
    /\ d1 \in Frames("D1")
    /\ h4 \in Frames("H4")
    /\ h1 \in H1Frames
    /\ reg = NoRegime
    /\ SignalIdle
    /\ AgentIdle
    /\ ChainIdle
    /\ ExtIdle

CallRegimeSignal ==
    /\ reg' = regime_signal(d1, h4, h1)
    /\ UNCHANGED <<d1, h4, h1>>
    /\ UNCHANGED sigvars
    /\ UNCHANGED agvars
    /\ UNCHANGED chvars
    /\ UNCHANGED extvars

RegimeNext == CallRegimeSignal

SpecRegime == RegimeInit /\ [][RegimeNext]_vars

-----------------------------------------------------------------------------
(* agent.analyze_symbol, step by step, on feeds drawn in Init *)

AgentInit ==
    /\ feed \in [TFs -> TrendFeeds \cup FineFeeds]
    /\ feed["D1"] \in TrendFeeds /\ feed["H4"] \in TrendFeeds
    /\ feed["H1"] \in FineFeeds /\ feed["M15"] \in FineFeeds
    /\ dfs = [tf \in TFs |-> NoneDf]
    /\ m15i = NoneFrame
    /\ chart = <<>>
    /\ report = NoReport
    /\ apc = "start"
    /\ RegimeIdle
    /\ SignalIdle
    /\ ChainIdle
    /\ ExtIdle

\* lines 256-263: the four downloads and the health counts
Download ==
    /\ apc = "start"
    /\ dfs' = [tf \in TFs |-> download_series(feed[tf])]
    /\ apc' = "downloaded"
    /\ UNCHANGED <<feed, m15i, chart, report>>
    /\ UNCHANGED regvars
    /\ UNCHANGED sigvars
    /\ UNCHANGED chvars
    /\ UNCHANGED extvars

\* lines 266-269
Indicators ==
    /\ apc = "downloaded"
    /\ d1' = add_indicators(dfs["D1"], "D1")
    /\ h4' = add_indicators(dfs["H4"], "H4")
    /\ h1' = add_indicators(dfs["H1"], "H1")
    /\ m15i' = add_indicators(dfs["M15"], "M15")
    /\ apc' = "indicators"
    /\ UNCHANGED <<feed, dfs, chart, report, reg>>
    /\ UNCHANGED sigvars
    /\ UNCHANGED chvars
    /\ UNCHANGED extvars

\* line 272: an exception of regime_signal leaves analyze_symbol
Regime ==
    /\ apc = "indicators"
    /\ reg' = regime_signal(d1, h4, h1)
    /\ apc' = IF reg'.status = "raised" THEN "raised" ELSE "regime"
    /\ UNCHANGED <<feed, dfs, m15i, chart, report, d1, h4, h1>>
    /\ UNCHANGED sigvars
    /\ UNCHANGED chvars
    /\ UNCHANGED extvars

\* lines 275-278: plot_m15 gives no chart without M15 data and may fail
Chart ==
    /\ apc = "regime"
    /\ \E ok \in BOOLEAN :
          chart' = IF ok /\ ~NoData(dfs["M15"]) THEN <<"M15.png">> ELSE <<>>
    /\ apc' = "charted"
    /\ UNCHANGED <<feed, dfs, m15i, report>>
    /\ UNCHANGED regvars
    /\ UNCHANGED sigvars
    /\ UNCHANGED chvars
    /\ UNCHANGED extvars

\* lines 281-291
Html ==
    /\ apc = "charted"
    /\ report' = build_html(reg.bias, reg.reason, health_counts(dfs), last_price(dfs["M15"]))
    /\ apc' = "done"
    /\ UNCHANGED <<feed, dfs, m15i, chart>>
    /\ UNCHANGED regvars
    /\ UNCHANGED sigvars
    /\ UNCHANGED chvars
    /\ UNCHANGED extvars

AgentNext == Download \/ Indicators \/ Regime \/ Chart \/ Html

SpecAgent == AgentInit /\ [][AgentNext]_vars

-----------------------------------------------------------------------------
(* analysis/regime.py analyze_symbol, step by step *)

ChainFrames ==
    [n : {0, 1, MinBars - 1, MinBars, MaxBars + 1},
     cols : {RawCols, {"Open", "Close", "Volume"}},
     Close : {1, 2}, EMA50 : {NaN}, RSI : {RsiMid, RsiMid + 1}, prevRSI : {RsiMid},
     ATR : {NaN}, PSAR : {0}]

ChainInit ==
    /\ m15 \in ChainFrames
    /\ ccall \in {SiteCall} \cup SignatureCalls
    /\ bias = "NEUTRAL"
    /\ rules \in RuleSets
    /\ out = NoCall
    /\ cpc = "start"
    /\ cexc = ""
    /\ RegimeIdle
    /\ AgentIdle
    /\ ExtIdle

\* lines 46-52: add_indicators(df15, ...).dropna()
ChainAddIndicators ==
    /\ cpc = "start"
    /\ LET r == indicators_add_indicators(m15, ccall)
       IN  IF r.status = "raised"
           THEN /\ cpc' = "raised"
                /\ cexc' = r.exc
                /\ UNCHANGED m15
           ELSE /\ \E k \in DropNaRows(r.frame.n) : m15' = [r.frame EXCEPT !.n = k]
                /\ cpc' = "indicators"
                /\ cexc' = ""
    /\ UNCHANGED <<bias, rules, out, ccall>>
    /\ UNCHANGED regvars
    /\ UNCHANGED agvars
    /\ UNCHANGED extvars

\* lines 55-72: h1, h4 and d1 are built the same way and handed to
\* regime_signal_safe, which yields one of the three biases
ChainRegime ==
    /\ cpc = "indicators"
    /\ bias' \in Biases
    /\ cpc' = "regime"
    /\ UNCHANGED <<m15, rules, out, ccall, cexc>>
    /\ UNCHANGED regvars
    /\ UNCHANGED agvars
    /\ UNCHANGED extvars

\* line 73: trade = strat.signal(df15, regime["bias"])
ChainSignal ==
    /\ cpc = "regime"
    /\ \E t \in Ties :
          out' = [entry_exit_on_m15(m15, bias, rules, t) EXCEPT !.via = "wilder"]
    /\ cpc' = IF out'.status = "raised" THEN "raised" ELSE "signal"
    /\ cexc' = out'.exc
    /\ UNCHANGED <<m15, bias, rules, ccall>>
    /\ UNCHANGED regvars
    /\ UNCHANGED agvars
    /\ UNCHANGED extvars

\* lines 76-81: df15["Close"].iloc[-1] needs a row
ChainHtml ==
    /\ cpc = "signal"
    /\ cpc' = IF m15.n = 0 THEN "raised" ELSE "done"
    /\ cexc' = IF m15.n = 0 THEN "IndexError" ELSE ""
    /\ UNCHANGED <<m15, bias, rules, out, ccall>>
    /\ UNCHANGED regvars
    /\ UNCHANGED agvars
    /\ UNCHANGED extvars

ChainNext == ChainAddIndicators \/ ChainRegime \/ ChainSignal \/ ChainHtml

SpecChain == ChainInit /\ [][ChainNext]_vars

-----------------------------------------------------------------------------
(* A caller that calls the signal engine several times in a row, on its
   frame and bias and on other frames and biases in between *)

RepeatInit ==
    /\ m15 \in RepeatFrames
    /\ bias \in Biases
    /\ rules \in RuleSets
    /\ out = NoCall
    /\ tie \in Ties
    /\ first = [r \in Routes |-> NoCall]
    /\ ncalls = NoCalls
    /\ given = NoArgs
    /\ RegimeIdle
    /\ AgentIdle
    /\ ChainIdle
    /\ IndicatorsIdle
    /\ MainIdle
    /\ MailIdle

\* A call on the caller's frame and bias if the out dict were shared
\* between calls.
MainCallSharedOut(r) ==
    /\ TotalCalls(ncalls) < MaxCalls
    /\ out' = signal_call_shared_out(m15, bias, r, rules, tie, out)
    /\ first' = IF first[r] = NoCall THEN [first EXCEPT ![r] = out'] ELSE first
    /\ given' = [main |-> TRUE, bias |-> bias, frame |-> m15]
    /\ ncalls' = [ncalls EXCEPT ![r] = @ + 1]
    /\ UNCHANGED <<m15, bias, rules, tie>>
    /\ UNCHANGED regvars
    /\ UNCHANGED agvars
    /\ UNCHANGED chvars
    /\ UNCHANGED indvars
    /\ UNCHANGED mainvars
    /\ UNCHANGED mailvars

\* A call on the caller's frame and bias by route r.  round() is a function
\* of its argument, so the ties of the frame go the same way in every call.
MainCall(r) ==
    /\ TotalCalls(ncalls) < MaxCalls
    /\ out' = signal_call(m15, bias, r, rules, tie)
    /\ first' = IF first[r] = NoCall THEN [first EXCEPT ![r] = out'] ELSE first
    /\ given' = [main |-> TRUE, bias |-> bias, frame |-> m15]
    /\ ncalls' = [ncalls EXCEPT ![r] = @ + 1]
    /\ UNCHANGED <<m15, bias, rules, tie>>
    /\ UNCHANGED regvars
    /\ UNCHANGED agvars
    /\ UNCHANGED chvars
    /\ UNCHANGED indvars
    /\ UNCHANGED mainvars
    /\ UNCHANGED mailvars

\* A call on another frame or bias by route r; the caller's frame, bias and
\* strategy instance stay as they are.
OtherCall(r) ==
    /\ TotalCalls(ncalls) < MaxCalls
    /\ \E a \in OtherArgs(m15, bias), t \in OtherTies :
          /\ out' = signal_call(a[1], a[2], r, rules, t)
          /\ given' = [main |-> FALSE, bias |-> a[2], frame |-> a[1]]
    /\ ncalls' = [ncalls EXCEPT !["other"] = @ + 1]
    /\ UNCHANGED <<m15, bias, rules, tie, first>>
    /\ UNCHANGED regvars
    /\ UNCHANGED agvars
    /\ UNCHANGED chvars
    /\ UNCHANGED indvars
    /\ UNCHANGED mainvars
    /\ UNCHANGED mailvars

\* entry_exit_on_m15(m15, bias) once more
RepeatEntryExit == MainCall("direct")

\* strategy.signal(m15, bias) once more, on the same instance
RepeatWilderSignal == MainCall("wilder")

OtherEntryExit == OtherCall("direct")

OtherWilderSignal == OtherCall("wilder")

RepeatNext ==
    RepeatEntryExit \/ RepeatWilderSignal \/ OtherEntryExit \/ OtherWilderSignal

SpecRepeat == RepeatInit /\ [][RepeatNext]_vars

-----------------------------------------------------------------------------
(* One call of add_indicators on a frame drawn in Init *)

IndicatorsInit ==
    /\ bars \in BarFrames
    /\ icall \in IndicatorCalls
    /\ ires = NoIndResult
    /\ SignalIdle
    /\ RegimeIdle
    /\ AgentIdle
    /\ ChainIdle
    /\ RepeatIdle
    /\ MainIdle
    /\ MailIdle

\* agent.add_indicators(df, tf_label): works on df.copy()
AgentAddIndicators ==
    /\ icall.impl = "agent"
    /\ ires.status = "none"
    /\ ires' = agent_indicators_result(bars, icall.tf)
    /\ UNCHANGED <<bars, icall>>
    /\ UNCHANGED <<sigvars, regvars, agvars, chvars, repvars, mainvars, mailvars>>

\* analysis.indicators.add_indicators(df, ...): works on df.copy()
WilderAddIndicators ==
    /\ icall.impl = "indicators"
    /\ ires.status = "none"
    /\ ires' = wilder_indicators_result(bars, icall)
    /\ UNCHANGED <<bars, icall>>
    /\ UNCHANGED <<sigvars, regvars, agvars, chvars, repvars, mainvars, mailvars>>

IndicatorsNext == AgentAddIndicators \/ WilderAddIndicators

SpecIndicators == IndicatorsInit /\ [][IndicatorsNext]_vars

-----------------------------------------------------------------------------
(* main of agent.py and of analysis/regime.py on a symbol list drawn in Init;
   the loop is sequential code and always takes its next step *)

MainInit ==
    /\ run \in MainRuns
    /\ run.raises \subseteq 1..Len(run.symbols)
    /\ mi = 0
    /\ reports = <<>>
    /\ outlog = <<>>
    /\ mpc = "loop"
    /\ SignalIdle
    /\ RegimeIdle
    /\ AgentIdle
    /\ ChainIdle
    /\ RepeatIdle
    /\ IndicatorsIdle
    /\ MailIdle

\* agent.py lines 315-346 if the call of analyze_symbol had no try/except:
\* an exception leaves main.
AgentMainStepNoHandler ==
    /\ run.prog = "agent" /\ mpc = "loop" /\ mi < Len(run.symbols)
    /\ LET s == run.symbols[mi + 1]
           sym == analysed_symbol("agent", s, run.weekend)
       IN  IF (mi + 1) \in run.raises
           THEN /\ mpc' = "raised"
                /\ UNCHANGED <<mi, reports, outlog>>
           ELSE /\ reports' = Append(reports, symbol_report(s, sym, FALSE))
                /\ \E send \in SendOutcomes :
                      outlog' = Append(outlog, [symbol |-> sym,
                                                to |-> report_output(run.email, send)])
                /\ mi' = mi + 1
                /\ UNCHANGED mpc
    /\ UNCHANGED run
    /\ UNCHANGED <<sigvars, regvars, agvars, chvars, repvars, indvars, mailvars>>

\* agent.py lines 315-346: one pass of the loop body
AgentMainStep ==
    /\ run.prog = "agent" /\ mpc = "loop" /\ mi < Len(run.symbols)
    /\ LET s == run.symbols[mi + 1]
           sym == analysed_symbol("agent", s, run.weekend)
       IN  /\ reports' = Append(reports, symbol_report(s, sym, (mi + 1) \in run.raises))
           /\ \E send \in SendOutcomes :
                 outlog' = Append(outlog, [symbol |-> sym,
                                           to |-> report_output(run.email, send)])
    /\ mi' = mi + 1
    /\ UNCHANGED <<run, mpc>>
    /\ UNCHANGED <<sigvars, regvars, agvars, chvars, repvars, indvars, mailvars>>

\* agent.py: the loop is exhausted and main returns
AgentMainEnd ==
    /\ run.prog = "agent" /\ mpc = "loop" /\ mi = Len(run.symbols)
    /\ mpc' = "done"
    /\ UNCHANGED <<run, mi, reports, outlog>>
    /\ UNCHANGED <<sigvars, regvars, agvars, chvars, repvars, indvars, mailvars>>

\* analysis/regime.py lines 110-117: one pass of the loop body
ChainMainStep ==
    /\ run.prog = "chain" /\ mpc = "loop" /\ mi < Len(run.symbols)
    /\ LET s == run.symbols[mi + 1]
       IN  reports' = Append(reports, symbol_report(s, s, (mi + 1) \in run.raises))
    /\ mi' = mi + 1
    /\ UNCHANGED <<run, outlog, mpc>>
    /\ UNCHANGED <<sigvars, regvars, agvars, chvars, repvars, indvars, mailvars>>

\* analysis/regime.py lines 119-129: the digest of all reports is mailed or
\* printed; send_email's result is not looked at
ChainMainFinish ==
    /\ run.prog = "chain" /\ mpc = "loop" /\ mi = Len(run.symbols)
    /\ \E send \in {"ok", "nok"} :
          outlog' = Append(outlog, [symbol |-> "digest",
                                    to |-> report_output(run.email, send)])
    /\ mpc' = "done"
    /\ UNCHANGED <<run, mi, reports>>
    /\ UNCHANGED <<sigvars, regvars, agvars, chvars, repvars, indvars, mailvars>>

MainNext ==
    AgentMainStep \/ AgentMainEnd \/ ChainMainStep \/ ChainMainFinish

SpecMain == MainInit /\ [][MainNext]_vars /\ WF_vars(MainNext)

-----------------------------------------------------------------------------
(* One call of send_email, step by step, in an environment drawn in Init *)

MailInit ==
    /\ env \in Environments
    /\ msg = NoMessage
    /\ smtplog = <<>>
    /\ sendres = "none"
    /\ sendpc = "start"
    /\ SignalIdle
    /\ RegimeIdle
    /\ AgentIdle
    /\ ChainIdle
    /\ RepeatIdle
    /\ IndicatorsIdle
    /\ MainIdle

\* lines 72-78: cfg = _env() and the check for missing values
SendCheck ==
    /\ sendpc = "start"
    /\ IF ~port_parses(env)
       THEN sendres' = "raised" /\ sendpc' = "returned"
       ELSE IF missing(env_cfg(env)) # {}
       THEN sendres' = "False" /\ sendpc' = "returned"
       ELSE sendres' = sendres /\ sendpc' = "checked"
    /\ UNCHANGED <<env, msg, smtplog>>
    /\ UNCHANGED <<sigvars, regvars, agvars, chvars, repvars, indvars, mainvars>>

\* lines 81-86: the message; reading an attachment may raise
SendBuild ==
    /\ sendpc = "checked"
    /\ \E readable \in BOOLEAN :
          IF readable
          THEN /\ msg' = [from |-> env_cfg(env).SMTP_USER, to |-> env_cfg(env).EMAIL_TO]
               /\ sendpc' = "built"
               /\ UNCHANGED sendres
          ELSE /\ sendres' = "raised"
               /\ sendpc' = "returned"
               /\ UNCHANGED msg
    /\ UNCHANGED <<env, smtplog>>
    /\ UNCHANGED <<sigvars, regvars, agvars, chvars, repvars, indvars, mainvars>>

\* One SMTP step of lines 91-97: it succeeds and the next line runs, or it
\* raises, the with block is left and an except clause returns.
SmtpStep(step, here, next) ==
    /\ sendpc = here
    /\ \E o \in StepOutcomes :
          /\ smtplog' = Append(smtplog, [step |-> step, outcome |-> o])
          /\ IF o = "ok"
             THEN sendpc' = next /\ UNCHANGED sendres
             ELSE sendpc' = "returned" /\ sendres' = handler_result(o)
    /\ UNCHANGED <<env, msg>>
    /\ UNCHANGED <<sigvars, regvars, agvars, chvars, repvars, indvars, mainvars>>

\* line 91: smtplib.SMTP(host, port, timeout=30)
SmtpConnect == SmtpStep("connect", "built", "connected")

\* line 92
SmtpEhlo == SmtpStep("ehlo", "connected", "greeted")

\* line 93
SmtpStartTls == SmtpStep("starttls", "greeted", "tls")

\* line 94
SmtpEhloTls == SmtpStep("ehlo", "tls", "greeted_tls")

\* line 96
SmtpLogin == SmtpStep("login", "greeted_tls", "logged_in")

\* line 97
SmtpSendMessage == SmtpStep("send_message", "logged_in", "sent")

\* lines 97-99: the with block ends with QUIT; a reply other than 221 raises
\* SMTPResponseException, otherwise send_email returns True
SmtpQuit ==
    /\ sendpc = "sent"
    /\ \E o \in {"ok", "smtp"} :
          sendres' = IF o = "ok" THEN "True" ELSE handler_result(o)
    /\ sendpc' = "returned"
    /\ UNCHANGED <<env, msg, smtplog>>
    /\ UNCHANGED <<sigvars, regvars, agvars, chvars, repvars, indvars, mainvars>>

MailNext ==
    \/ SendCheck \/ SendBuild
    \/ SmtpConnect \/ SmtpEhlo \/ SmtpStartTls \/ SmtpEhloTls
    \/ SmtpLogin \/ SmtpSendMessage \/ SmtpQuit

SpecMail == MailInit /\ [][MailNext]_vars

-----------------------------------------------------------------------------
(* Claims about the signal engine, checked under SpecSignal *)

Called == out.status # "none"
Returned == out.status = "returned"
LongEnough == m15.n >= MinBars
HasSignalCols == {"Close", "EMA50", "RSI", "ATR", "PSAR"} \subseteq m15.cols
IsNum(x) == x # NaN

\* C6: a frame with fewer than 20 bars yields WAIT with the too-few-bars
\* note for every bias, before any column is read (so it never raises,
\* whatever columns the frame has).
C6_ShortFrameWaits ==
    (Called /\ m15.n < 20) =>
        /\ out.status = "returned"
        /\ out.action = "WAIT"
        /\ out.note = "Zu wenige Bars"
        /\ out.reads = <<>>

C6_Witness ==
    /\ Called /\ m15.n = 19 /\ m15.cols = RawCols /\ bias = "UP"
    /\ out.action = "WAIT"

\* C7: with at least 20 bars the result is BUY exactly when bias is UP,
\* close > EMA50, prev_rsi <= 50 < rsi and |close - EMA50| <= frac * ATR
\* (all operands numbers); never BUY under DOWN or NEUTRAL.
C7_BuyCondition ==
    /\ bias = "UP"
    /\ IsNum(m15.Close) /\ IsNum(m15.EMA50) /\ IsNum(m15.RSI)
    /\ IsNum(m15.prevRSI) /\ IsNum(m15.ATR)
    /\ m15.Close > m15.EMA50
    /\ m15.prevRSI <= 50 /\ 50 < m15.RSI
    /\ 4 * Abs(m15.Close - m15.EMA50) <= out.params.frac * m15.ATR

C7_BuyIff ==
    (Called /\ LongEnough /\ HasSignalCols) =>
        /\ Returned
        /\ (out.action = "BUY") <=> C7_BuyCondition
        /\ (bias \in {"DOWN", "NEUTRAL"}) => out.action # "BUY"

C7_Witness ==
    /\ Called /\ LongEnough /\ out.action = "BUY"
    /\ m15.prevRSI = 50 /\ out.params.frac = 1

\* C8: SELL is the mirror of BUY.  With at least 20 bars the result is SELL
\* exactly when bias is DOWN, close < EMA50, prev_rsi >= 50 > rsi and
\* |close - EMA50| <= frac * ATR; and reflecting the frame (prices around
\* EMA50, RSI around 50) together with the bias turns BUY into SELL, SELL
\* into BUY and WAIT into WAIT.
C8_SellCondition ==
    /\ bias = "DOWN"
    /\ IsNum(m15.Close) /\ IsNum(m15.EMA50) /\ IsNum(m15.RSI)
    /\ IsNum(m15.prevRSI) /\ IsNum(m15.ATR)
    /\ m15.Close < m15.EMA50
    /\ m15.prevRSI >= 50 /\ 50 > m15.RSI
    /\ 4 * Abs(m15.Close - m15.EMA50) <= out.params.frac * m15.ATR

Reflect(x, c) == IF IsNaN(x) \/ IsNaN(c) THEN NaN ELSE 2 * c - x

Mirror(f) ==
    [f EXCEPT !.Close = Reflect(f.Close, f.EMA50),
              !.PSAR = Reflect(f.PSAR, f.EMA50),
              !.RSI = Reflect(f.RSI, 50),
              !.prevRSI = Reflect(f.prevRSI, 50)]

MirrorBias(b) == IF b = "UP" THEN "DOWN" ELSE IF b = "DOWN" THEN "UP" ELSE b

MirrorAction(a) == IF a = "BUY" THEN "SELL" ELSE IF a = "SELL" THEN "BUY" ELSE a

C8_SellMirror ==
    (Called /\ LongEnough /\ HasSignalCols) =>
        /\ Returned
        /\ (out.action = "SELL") <=> C8_SellCondition
        /\ \A t \in Ties :
              entry_exit_on_m15(Mirror(m15), MirrorBias(bias), out.params, t).action
                  = MirrorAction(out.action)

C8_Witness ==
    /\ Called /\ LongEnough /\ out.action = "SELL" /\ m15.prevRSI = 50
    /\ \E t \in Ties :
          entry_exit_on_m15(Mirror(m15), MirrorBias(bias), out.params, t).action = "BUY"

\* C9: a BUY has entry = round(close, 5), stop-loss = round(entry -
\* sl_mult * ATR, 5) and take-profit = round(entry + tp_mult * ATR, 5); a
\* SELL has the stop above and the target below; a close on the 0.00001
\* grid is its own entry; the direct call uses sl_mult 1.5 and tp_mult 2.0.
NearestUnit(x, num, den) == 2 * Abs(den * x - num) <= den

C9_Levels ==
    /\ (Called /\ out.via = "direct") => (out.params.sl = 6 /\ out.params.tp = 8)
    /\ (Returned /\ out.action \in {"BUY", "SELL"}) =>
          /\ NearestUnit(out.entry, m15.Close, 2)
          /\ (m15.Close % 2 = 0) => (2 * out.entry = m15.Close)
    /\ (Returned /\ out.action = "BUY") =>
          /\ NearestUnit(out.sl, 8 * out.entry - out.params.sl * m15.ATR, 8)
          /\ NearestUnit(out.tp, 8 * out.entry + out.params.tp * m15.ATR, 8)
    /\ (Returned /\ out.action = "SELL") =>
          /\ NearestUnit(out.sl, 8 * out.entry + out.params.sl * m15.ATR, 8)
          /\ NearestUnit(out.tp, 8 * out.entry - out.params.tp * m15.ATR, 8)

\* A BUY whose stop lies exactly between two units and was rounded up.
C9_Witness ==
    /\ Returned /\ out.action = "BUY" /\ out.via = "direct"
    /\ m15.Close % 2 = 0
    /\ (8 * out.entry - 6 * m15.ATR) % 8 = 4
    /\ 8 * out.sl = 8 * out.entry - 6 * m15.ATR + 4

\* C10: a NaN in close, EMA50, RSI, previous RSI or ATR of the last bar
\* yields WAIT for every bias.
C10_NaNWaits ==
    (Called /\ HasSignalCols
        /\ NaN \in {m15.Close, m15.EMA50, m15.RSI, m15.prevRSI, m15.ATR}) =>
        (Returned /\ out.action = "WAIT" /\ out.entry = None)

C10_Witness ==
    /\ Called /\ LongEnough /\ bias = "UP" /\ out.action = "WAIT"
    /\ m15.ATR = NaN /\ IsNum(m15.Close) /\ IsNum(m15.EMA50)
    /\ m15.Close > m15.EMA50 /\ m15.prevRSI = 50 /\ m15.RSI = 51

\* C18: a BUY or SELL returned with positive pullback_atr_frac, sl_atr_mult
\* and tp_atr_mult was computed from a strictly positive ATR and has its
\* levels strictly ordered: stop-loss < entry < take-profit for a BUY,
\* take-profit < entry < stop-loss for a SELL.
C18_LevelsOrdered ==
    (Returned /\ out.action \in {"BUY", "SELL"}
        /\ out.params.frac > 0 /\ out.params.sl > 0 /\ out.params.tp > 0) =>
        /\ IsNum(m15.ATR) /\ m15.ATR > 0
        /\ out.action = "BUY" => (out.sl < out.entry /\ out.entry < out.tp)
        /\ out.action = "SELL" => (out.tp < out.entry /\ out.entry < out.sl)

-----------------------------------------------------------------------------
(* Claim about repeated calls of the signal engine, checked under
   SpecRepeat *)

-----------------------------------------------------------------------------
(* Claims about add_indicators, checked under SpecIndicators *)

IndCalled == ires.status # "none"

\* The derived columns the call is to add.
ExpectedDerived(c) ==
    IF c.impl = "agent" THEN IndicatorCols(c.tf) ELSE DerivedCols(c.ema_len, c.psar)

ColumnAllNaN(r, c) == c \in DOMAIN r.vals /\ r.vals[c] = AllNaN(r.n)

\* C12: add_indicators does not raise on short input, and on a bar series
\* of fewer than 2 bars (the empty series included) it returns a frame with
\* the raw OHLC columns and every derived indicator column, all NaN.
C12_ShortInputAllNaN ==
    (IndCalled /\ ~bars.isNone /\ bars.n < 2 /\ bars.cols = OhlcCols) =>
        /\ ires.status = "returned"
        /\ ~ires.isNone
        /\ {"Open", "High", "Low", "Close"} \subseteq ires.cols
        /\ ExpectedDerived(icall) \subseteq ires.cols
        /\ \A c \in ExpectedDerived(icall) : ColumnAllNaN(ires, c)

\* The indicator computations the call makes, the pandas_ta outcome of
\* each, and the columns each fills.
IndicatorsOf(c) ==
    {"ADX", "RSI", "EMA"} \cup (IF c.impl = "indicators" /\ c.psar THEN {"PSAR"} ELSE {})

TaOf(df, ind) ==
    IF ind = "ADX" THEN df.ta_adx
    ELSE IF ind = "RSI" THEN df.ta_rsi
    ELSE IF ind = "EMA" THEN df.ta_ema ELSE df.ta_psar

ColsOf(c, ind) ==
    IF c.impl = "agent"
    THEN IF ind = "ADX" THEN {AdxCol(c.tf)}
         ELSE IF ind = "RSI" THEN {RsiCol(c.tf)} ELSE {EmaCol(c.tf)}
    ELSE IF ind = "ADX" THEN {"ADX", "DMP", "DMM"}
         ELSE IF ind = "EMA" THEN {"EMA_" \o ToString(c.ema_len)} ELSE {ind}

\* The computation raised, or gave nothing to store: None, or for agent.py
\* an ADX frame without an ADX_14 column.
Failed(df, c, ind) ==
    \/ TaOf(df, ind).kind \in {"raise", "none"}
    \/ c.impl = "agent" /\ ind = "ADX" /\ ~TaOf(df, ind).hasCol

\* The call reaches its try/except blocks: the frame has rows and, for
\* indicators.py, the columns High, Low and Close.
Attempts ==
    /\ ~NoData(bars)
    /\ icall.impl = "indicators" => {"Close", "High", "Low"} \subseteq bars.cols

\* C13: whichever of the indicator computations fail, add_indicators
\* returns a frame normally, the columns of the failed indicators are all
\* NaN, the columns of the others hold what was computed, the input's rows
\* and columns are kept, and the caller's frame is as it was passed.
C13_FailuresIsolated ==
    (IndCalled /\ Attempts) =>
        /\ ires.status = "returned"
        /\ ~ires.isNone /\ ires.n = bars.n /\ bars.cols \subseteq ires.cols
        /\ bars = ires.arg
        /\ \A ind \in IndicatorsOf(icall) : \A c \in ColsOf(icall, ind) :
              /\ c \in ires.cols /\ c \in DOMAIN ires.vals
              /\ IF Failed(bars, icall, ind)
                 THEN ires.vals[c] = AllNaN(bars.n)
                 ELSE ires.vals[c] = TaOf(bars, ind).series

\* RSI and PSAR raise, ADX and EMA are computed with numbers in them.
C13_Witness ==
    /\ IndCalled /\ Attempts /\ icall.impl = "indicators" /\ icall.psar
    /\ bars.ta_rsi.kind = "raise" /\ bars.ta_psar.kind = "raise"
    /\ bars.ta_adx.kind = "ok" /\ bars.ta_ema.kind = "ok"
    /\ ires.vals["RSI"] = AllNaN(bars.n)
    /\ ires.vals["ADX"] # AllNaN(bars.n)
    /\ ires.vals["EMA_" \o ToString(icall.ema_len)] # AllNaN(bars.n)

-----------------------------------------------------------------------------
(* Claim about the main loops, checked under SpecMain *)

\* One report per symbol gone through, in input order: an error report for
\* a symbol whose analysis raised, a normal report for every other one.
ReportsInOrder ==
    /\ Len(reports) = mi
    /\ mi <= Len(run.symbols)
    /\ \A i \in 1..Len(reports) :
          /\ reports[i].for = run.symbols[i]
          /\ reports[i].kind = IF i \in run.raises THEN "error" ELSE "normal"

LoopDone == mpc = "done" /\ Len(reports) = Len(run.symbols)

\* C15: whichever symbols' analyses raise, the loop goes on to the
\* remaining symbols and ends with exactly one report per symbol, normal or
\* error, in input order.
C15_EverySymbolReported == []ReportsInOrder /\ <>LoopDone

\* The analysis of the first of three symbols raised and the loop ended
\* with an error report for it and normal reports for the other two.
C15_Witness ==
    /\ LoopDone /\ Len(run.symbols) = 3 /\ run.raises = {1}
    /\ reports[1].kind = "error"
    /\ reports[2].kind = "normal" /\ reports[3].kind = "normal"

-----------------------------------------------------------------------------
(* Claims about send_email, checked under SpecMail *)

SendReturned == sendpc = "returned"

\* EMAIL_TO, SMTP_USER and SMTP_PASS all have a non-empty value.
Configured == \A n \in ConfigNames : env[n] # ""

Attempted(step) == \E i \in 1..Len(smtplog) : smtplog[i].step = step

Completed(step) ==
    \E i \in 1..Len(smtplog) : smtplog[i].step = step /\ smtplog[i].outcome = "ok"

\* C16: with EMAIL_TO, SMTP_USER and SMTP_PASS all set to non-empty values
\* (and a usable port) send_email builds the message, with SMTP_USER as
\* sender and EMAIL_TO as recipient, and attempts the SMTP send; with any of
\* them unset or empty it returns False without opening a connection.
C16_ConfigFromEnvironment ==
    (sendpc # "start" /\ port_parses(env)) =>
        /\ Configured =>
              /\ sendpc \notin {"start", "checked"} => (sendres = "raised" \/ msg # NoMessage)
              /\ (msg # NoMessage) => (msg.from = env["SMTP_USER"] /\ msg.to = env["EMAIL_TO"])
              /\ (SendReturned /\ sendres # "raised") => Attempted("connect")
        /\ ~Configured =>
              /\ SendReturned /\ sendres = "False"
              /\ smtplog = <<>>

\* C17: the SMTP steps are taken in the order connect, EHLO, STARTTLS, EHLO,
\* login, send_message, each only after the one before it succeeded; a
\* failure of any step does not leave send_email as an exception; the call
\* returns True only if send_message completed, and False if it did not.
C17_SmtpOrder ==
    /\ Len(smtplog) <= Len(SmtpOrder)
    /\ \A i \in 1..Len(smtplog) :
          /\ smtplog[i].step = SmtpOrder[i]
          /\ i < Len(smtplog) => smtplog[i].outcome = "ok"
    /\ Attempted("send_message") => Completed("login")
    /\ Attempted("login") => Completed("starttls")
    /\ smtplog # <<>> =>
          /\ sendres # "raised"
          /\ SendReturned => sendres \in {"True", "False"}
          /\ (SendReturned /\ ~Completed("send_message")) => sendres = "False"
    /\ sendres = "True" => Completed("send_message")

\* The server rejected the login: send_email returned False and never sent.
C17_Witness ==
    /\ SendReturned /\ sendres = "False"
    /\ Len(smtplog) = 5 /\ smtplog[5] = [step |-> "login", outcome |-> "auth"]
    /\ Completed("starttls") /\ ~Attempted("send_message")

-----------------------------------------------------------------------------
(* Claims about agent.regime_signal, checked under SpecRegime *)

RegCalled == reg.status # "none"

HasValid(series, k) == Len(DropNa(series)) >= k

\* A required field of frame f is missing: the frame is None or empty, or
\* its EMA50 column (and, if needed, its ADX column) is absent or all NaN.
FieldMissing(f, tf, needAdx) ==
    \/ f.isNone
    \/ f.n = 0
    \/ EmaCol(tf) \notin f.cols
    \/ ~HasValid(f.ema, 1)
    \/ needAdx /\ (AdxCol(tf) \notin f.cols \/ ~HasValid(f.adx, 1))

\* C2: whenever a required field of any timeframe is missing or NaN, or the
\* 1H frame has only 4 bars, the bias returned is NEUTRAL.
C2_MissingDataNeutral ==
    (RegCalled /\ (\/ FieldMissing(d1, "D1", TRUE)
                   \/ FieldMissing(h4, "H4", TRUE)
                   \/ FieldMissing(h1, "H1", FALSE)
                   \/ h1.n <= 4)) =>
        (reg.status = "returned" /\ reg.bias = "NEUTRAL")

\* The EMA50 of frame f is rising: at least 6 valid points, the last one
\* above the one 5 valid points earlier.
Rising(f, tf) ==
    /\ ~f.isNone /\ f.n > 0 /\ EmaCol(tf) \in f.cols
    /\ HasValid(f.ema, 6)
    /\ LET s == DropNa(f.ema) IN s[Len(s)] > s[Len(s) - 5]

\* The last valid ADX of frame f is above 18.
AdxAbove(f, tf) ==
    /\ ~f.isNone /\ f.n > 0 /\ AdxCol(tf) \in f.cols
    /\ HasValid(f.adx, 1)
    /\ LET s == DropNa(f.adx) IN s[Len(s)] > 18

DailyBullish == Rising(d1, "D1") /\ AdxAbove(d1, "D1")
H4Bullish == Rising(h4, "H4") /\ AdxAbove(h4, "H4")
H1Bullish == Rising(h1, "H1")

Falling(f, tf) ==
    /\ ~f.isNone /\ f.n > 0 /\ EmaCol(tf) \in f.cols
    /\ HasValid(f.ema, 6)
    /\ LET s == DropNa(f.ema) IN s[Len(s)] < s[Len(s) - 5]

\* A non-empty frame as add_indicators builds it, with both columns.
IndicatorFrame(f, tf) ==
    ~f.isNone /\ f.n > 0 /\ {EmaCol(tf), AdxCol(tf)} \subseteq f.cols

\* C14: on non-empty D1 and H4 frames regime_signal returns UP exactly when
\* the EMA50 rises on both and the ADX of both is above 18, DOWN exactly
\* when it falls on both and the ADX of both is above 18, and NEUTRAL in
\* every other case; an EMA50 with fewer than 6 valid points neither rises
\* nor falls.
C14_DocumentedRule ==
    (RegCalled /\ IndicatorFrame(d1, "D1") /\ IndicatorFrame(h4, "H4")) =>
        LET adx == AdxAbove(d1, "D1") /\ AdxAbove(h4, "H4")
            up == Rising(d1, "D1") /\ Rising(h4, "H4") /\ adx
            down == Falling(d1, "D1") /\ Falling(h4, "H4") /\ adx
        IN  /\ reg.status = "returned"
            /\ reg.bias \in {"UP", "DOWN", "NEUTRAL"}
            /\ (reg.bias = "UP") <=> up
            /\ (reg.bias = "DOWN") <=> down
            /\ (reg.bias = "NEUTRAL") <=> (~up /\ ~down)
            /\ (~HasValid(d1.ema, 6) \/ ~HasValid(h4.ema, 6)) => reg.bias = "NEUTRAL"

-----------------------------------------------------------------------------
(* Claims about the proposals emitted and about agent.analyze_symbol,
   checked under SpecAgent *)

Emitted == apc = "done"

LevelsNull(p) == p.entry = None /\ p.sl = None /\ p.tp = None
LevelsSet(p) == p.entry # None /\ p.sl # None /\ p.tp # None

\* C1: in every proposal emitted - the dict entry_exit_on_m15 returns and
\* the trade block build_html renders - entry, stop-loss and take-profit
\* are all null exactly when the action is WAIT, and all set otherwise.
C1_LevelsNullIffWait ==
    /\ (out.status = "returned") =>
          /\ (out.action = "WAIT") <=> LevelsNull(out)
          /\ (out.action \in {"BUY", "SELL"}) => LevelsSet(out)
    /\ Emitted =>
          /\ (report.action = "WAIT") <=> LevelsNull(report)
          /\ (report.action \in {"BUY", "SELL"}) => LevelsSet(report)

\* A feed shorter than the indicator lookback, or absent.
Insufficient(f) == f.kind # "data" \/ f.ta_adx.kind # "ok" \/ f.ta_ema.kind # "ok"

\* C4: for every combination of feeds analyze_symbol finishes without an
\* exception and with a decision; with insufficient Daily or 4H data the
\* decision is NEUTRAL / WAIT.
C4_AnalyzeNeverRaises ==
    /\ apc # "raised"
    /\ Emitted =>
          /\ report.regime \in {"UP", "DOWN", "NEUTRAL"}
          /\ report.action \in {"BUY", "SELL", "WAIT"}
          /\ (Insufficient(feed["D1"]) \/ Insufficient(feed["H4"])) =>
                (report.regime = "NEUTRAL" /\ report.action = "WAIT")

-----------------------------------------------------------------------------
(* Claim about the indicator pipeline feeding the signal engine, checked
   under SpecChain *)

\* C5: the frame add_indicators produces for a non-empty bar series with
\* High/Low/Close has every column entry_exit_on_m15 reads, and the chain
\* add_indicators -> regime -> signal meets no bad-argument or
\* missing-column failure.
C5_PipelineFeedsSignal ==
    (m15.n > 0 /\ {"High", "Low", "Close"} \subseteq m15.cols) =>
        /\ cexc \notin {"TypeError", "KeyError"}
        /\ (cpc \in {"indicators", "regime", "signal", "done"}) =>
              {"Close", "EMA50", "RSI", "ATR", "PSAR"} \subseteq m15.cols

====
